---- MODULE Spec2Model ----
(***************************************************************************)
(* A model of shipm.py: one run of main() from its command line to its     *)
(* end, with the host (OS name, distro marker files, downloads directory), *)
(* the package-manager subprocesses and the GitHub API as the environment. *)
(*                                                                         *)
(* Strings that the program inspects by suffix (file names, paths) are     *)
(* sequences of characters; every other word is a one-token sequence, so   *)
(* that argument vectors and messages are sequences of words.              *)
(*                                                                         *)
(* Environment assumptions: a subprocess that is started returns an exit   *)
(* status (sudo and the package tools exist), a 200 release response       *)
(* carries a JSON object whose assets have distinct names, a name and a    *)
(* download URL, and a fully downloaded archive can be extracted.          *)
(***************************************************************************)
EXTENDS Integers, Sequences, FiniteSets, TLC

VARIABLES
    argv,             \* sys.argv
    platform_system,  \* what platform.system() returns on this host
    markers,          \* the distro marker files that exist on this host
    dirExists,        \* whether the directory "downloads" exists
    disk,             \* file name -> state of downloads/<name>
    pc,               \* position of the run in main()
    system,           \* main's local: system
    distro,           \* main's local: distro
    queue,            \* install_dependencies: subprocesses still to run
    assets,           \* download_latest's local: assets of the release
    downloaded_files, \* download_latest's local: downloaded_files
    inst,             \* main: number of files handed to install_file
    trace             \* every observable effect of the run, in order

vars == <<argv, platform_system, markers, dirExists, disk, pc, system, distro,
          queue, assets, downloaded_files, inst, trace>>

-----------------------------------------------------------------------------
(* Bounds of the model *)

\* the longest asset list a release carries
MaxAssets == 2

\* how many assets are already present in downloads/ before the run
MaxCached == 1

-----------------------------------------------------------------------------
(* Words and names *)

W(s) == <<s>>

DEB == <<".", "d", "e", "b">>
RPM == <<".", "r", "p", "m">>
ZIP == <<".", "z", "i", "p">>
TARGZ == <<".", "t", "a", "r", ".", "g", "z">>
TGZ == <<".", "t", "g", "z">>
TARXZ == <<".", "t", "a", "r", ".", "x", "z">>
TAR == <<".", "t", "a", "r">>
EXTRACTED == <<"_", "e", "x", "t", "r", "a", "c", "t", "e", "d">>

\* the asset names releases are built from
AssetNames ==
    { <<"f">> \o DEB, <<"f">> \o RPM, <<"f">> \o ZIP, <<"f">> \o TARGZ,
      <<"f", ".", "s", "i", "g">> }

\* str.endswith
EndsWith(s, suffix) ==
    /\ Len(s) >= Len(suffix)
    /\ SubSeq(s, Len(s) - Len(suffix) + 1, Len(s)) = suffix

\* str.lower on the names platform.system() returns
Lower(s) ==
    CASE s = "Linux" -> "linux"
      [] s = "Windows" -> "windows"
      [] s = "Darwin" -> "darwin"
      [] OTHER -> s

\* os.path.join(output_dir, filename) with output_dir = "downloads"
PathJoin(filename) == <<"downloads", "/">> \o filename

\* what the API gives as browser_download_url of the asset called name
DownloadUrl(name) == <<"https://github.com/download/">> \o name

Asset(name) == [name |-> name, browser_download_url |-> DownloadUrl(name)]

\* the ordered asset lists of a release: distinct names, at most MaxAssets
RECURSIVE SeqsOver(_, _)
SeqsOver(S, n) ==
    IF n = 0 THEN {<<>>}
    ELSE LET shorter == SeqsOver(S, n - 1)
         IN  shorter \cup
             { Append(q, x) : q \in { r \in shorter : Len(r) = n - 1 }, x \in S }

Distinct(q) == \A i, j \in 1..Len(q) : i # j => q[i] # q[j]

AssetLists ==
    { [i \in 1..Len(q) |-> Asset(q[i])] :
        q \in { r \in SeqsOver(AssetNames, MaxAssets) : Distinct(r) } }

\* one observable effect: a printed line, a subprocess with its exit status,
\* a request with the status of its response (0: no response), a file
\* operation, a call or return of one of the program's functions
Event(kind, arg, code) == [kind |-> kind, arg |-> arg, code |-> code]

\* print(...): one line on standard output, as a sequence of words
Output(msg) == Event("print", msg, 0)

\* an exception nobody catches: the interpreter prints a traceback and exits
Raise(exc) == Event("raise", <<W(exc)>>, 0)

-----------------------------------------------------------------------------
(* Configuration *)

PACKAGES ==
    [ fastfetch |->
        [ repo |-> "fastfetch-cli/fastfetch",
          deps |-> [ debian |-> <<"curl", "libc6">>,
                     arch |-> <<"curl">>,
                     fedora |-> <<"curl">>,
                     windows |-> <<>> ] ],
      nvim |->
        [ repo |-> "neovim/neovim",
          deps |-> [ debian |-> <<"python3">>,
                     arch |-> <<"python">>,
                     fedora |-> <<"python3">>,
                     windows |-> <<>> ] ] ]

\* the three marker files detect_system probes
MarkerFiles == {"/etc/debian_version", "/etc/arch-release", "/etc/fedora-release"}

\* the names platform.system() returns on the hosts of the model
SystemNames == {"Linux", "Windows", "Darwin"}

\* exit statuses of a subprocess
ExitCodes == {0, 1}

\* status codes of the release query
StatusCodes == {200, 204, 404, 500}

\* the words of a list of plain strings
Words(q) == [i \in 1..Len(q) |-> W(q[i])]

-----------------------------------------------------------------------------
(* detect_system *)

\* a slip: the fedora marker probed before the arch marker
detect_system_fedora_first(sysname, files) ==
    LET sys == Lower(sysname)
        dist ==
            IF sys = "linux"
            THEN IF "/etc/debian_version" \in files THEN "debian"
                 ELSE IF "/etc/fedora-release" \in files THEN "fedora"
                 ELSE IF "/etc/arch-release" \in files THEN "arch"
                 ELSE "unknown"
            ELSE IF sys = "windows" THEN "windows"
            ELSE "unknown"
    IN  <<sys, dist>>

detect_system(sysname, files) ==
    LET sys == Lower(sysname)
        dist ==
            IF sys = "linux"
            THEN IF "/etc/debian_version" \in files THEN "debian"
                 ELSE IF "/etc/arch-release" \in files THEN "arch"
                 ELSE IF "/etc/fedora-release" \in files THEN "fedora"
                 ELSE "unknown"
            ELSE IF sys = "windows" THEN "windows"
            ELSE "unknown"
    IN  <<sys, dist>>

-----------------------------------------------------------------------------
(* install_dependencies *)

\* pkg_info["deps"].get(distro, [])
DepsOf(pkg_info, dist) ==
    IF dist \in DOMAIN pkg_info.deps THEN pkg_info.deps[dist] ELSE <<>>

\* a slip: debian installs without refreshing the package metadata first
DepsCommands_no_update(deps, dist) ==
    IF dist = "debian"
    THEN << Words(<<"sudo", "apt", "install", "-y">> \o deps) >>
    ELSE IF dist = "arch"
    THEN << Words(<<"sudo", "pacman", "-Sy", "--needed">> \o deps) >>
    ELSE IF dist = "fedora"
    THEN << Words(<<"sudo", "dnf", "install", "-y">> \o deps) >>
    ELSE <<>>

\* the subprocesses install_dependencies starts for a non-empty deps, in order
DepsCommands(deps, dist) ==
    IF dist = "debian"
    THEN << Words(<<"sudo", "apt", "update">>),
            Words(<<"sudo", "apt", "install", "-y">> \o deps) >>
    ELSE IF dist = "arch"
    THEN << Words(<<"sudo", "pacman", "-Sy", "--needed">> \o deps) >>
    ELSE IF dist = "fedora"
    THEN << Words(<<"sudo", "dnf", "install", "-y">> \o deps) >>
    ELSE <<>>

\* what install_dependencies prints when it starts no subprocess for deps
DepsAdvice(dist) ==
    IF dist = "windows"
    THEN Output(<<W("Windows: please install dependencies manually (or extend me!)")>>)
    ELSE Output(<<W("Unknown distro, skipping dependency install.")>>)

\* a slip: subprocess.run(cmd, check=True) raises on a non-zero exit status
subprocess_run_checked(code, next) == IF code # 0 THEN "crashed" ELSE next

\* subprocess.run(cmd) without check=True: the exit status is returned, not
\* raised, and the caller goes on to `next` whatever it is
subprocess_run(code, next) == next

\* where main goes when install_dependencies has returned
AfterDeps(command) == IF command = "deps" THEN "done" ELSE "query"

-----------------------------------------------------------------------------
(* download_latest *)

\* f"https://api.github.com/repos/{repo}/releases/latest"
ApiUrl(repo) == <<"https://api.github.com/repos/", repo, "/releases/latest">>

\* a slip: every 2xx status taken for success
ReleaseFetched_2xx(status) == status \in 200..299

\* r.status_code != 200 is the failure test of the release query
ReleaseFetched(status) == status = 200

\* how the request for one asset can go: the whole body arrives; requests.get
\* raises (transport error); raise_for_status raises (error status); the
\* stream breaks after the file has been opened for writing
DownloadOutcomes == {"ok", "connect_error", "http_error", "stream_error"}

\* the status of the response to an asset request, 0 when there is none
ResponseStatus(outcome) ==
    CASE outcome = "ok" -> 200
      [] outcome = "stream_error" -> 200
      [] outcome = "http_error" -> 404
      [] OTHER -> 0

\* a slip: a failed download is caught and main installs what was saved
DownloadFailed_caught == "install"

\* where the run goes when the download of an asset raises: nothing in
\* download_latest or main catches it
DownloadFailed == "crashed"

\* a slip: download_latest returns after the first asset it saved
AfterSaved_first_only(i, n) == "install"

\* where download_latest goes after asset number i of n was saved
AfterSaved(i, n) == IF i = n THEN "install" ELSE "download"

-----------------------------------------------------------------------------
(* install_file *)

\* os.path.basename of a path made by PathJoin
Basename(path) == SubSeq(path, 3, Len(path))

\* a slip: the .rpm branch taken on fedora only
RpmApplies_fedora_only(path, sys, dist) == EndsWith(path, RPM) /\ dist = "fedora"

\* the test of install_file's .rpm branch
RpmApplies(path, sys, dist) == EndsWith(path, RPM) /\ sys = "linux"

\* the effects of install_file(path, system, distro) after its first print,
\* with `code` the exit status of the subprocess it starts, if any
install_file(path, sys, dist, code) ==
    IF EndsWith(path, DEB) /\ sys = "linux"
    THEN IF dist = "debian"
         THEN << Event("run", Words(<<"sudo", "apt", "install", "-y">>) \o <<path>>, code) >>
         ELSE << Output(<<W("Warning: .deb on non-Debian systems may not work.")>>),
                 Event("run", Words(<<"sudo", "dpkg", "-i">>) \o <<path>>, code) >>
    ELSE IF RpmApplies(path, sys, dist)
    THEN << Event("run", Words(<<"sudo", "rpm", "-i">>) \o <<path>>, code) >>
    ELSE IF EndsWith(path, ZIP)
    THEN << Event("makedirs", <<path \o EXTRACTED>>, 0),
            Event("unzip", <<path, path \o EXTRACTED>>, 0),
            Output(<<W("Extracted to:"), path \o EXTRACTED>>) >>
    ELSE IF EndsWith(path, TARGZ) \/ EndsWith(path, TGZ)
            \/ EndsWith(path, TARXZ) \/ EndsWith(path, TAR)
    THEN << Event("makedirs", <<path \o EXTRACTED>>, 0),
            Event("untar", <<path, path \o EXTRACTED>>, 0),
            Output(<<W("Extracted to:"), path \o EXTRACTED>>) >>
    ELSE << Output(<<W("Unknown file type:"), path>>) >>

-----------------------------------------------------------------------------
(* The run *)

Commands == {"install", "deps", "remove"}
PackageNames == {"fastfetch", "nvim", "htop"}

\* the command lines of the model: too short, or a command and a package
ArgvSet ==
    { <<"shipm">>, <<"shipm", "install">> }
        \cup { <<"shipm", c, p>> : c \in Commands, p \in PackageNames }

Init ==
    /\ argv \in ArgvSet
    /\ platform_system \in SystemNames
    /\ markers \in SUBSET MarkerFiles
    /\ \E cached \in SUBSET AssetNames :
          /\ Cardinality(cached) <= MaxCached
          /\ disk = [n \in AssetNames |-> IF n \in cached THEN "old" ELSE "absent"]
          /\ dirExists \in {b \in BOOLEAN : cached # {} => b}
    /\ pc = "main"
    /\ system = ""
    /\ distro = ""
    /\ queue = <<>>
    /\ assets = <<>>
    /\ downloaded_files = <<>>
    /\ inst = 0
    /\ trace = <<>>

host == <<platform_system, markers>>
locals == <<system, distro, queue, assets, downloaded_files, inst>>
fsys == <<dirExists, disk>>

\* main, lines 202-204: fewer than two arguments
main_usage ==
    /\ pc = "main"
    /\ Len(argv) < 3
    /\ trace' = Append(trace, Output(<<W("Usage: shipm <install|deps> <package>")>>))
    /\ pc' = "done"
    /\ UNCHANGED <<argv, host, fsys, locals>>

\* main, lines 209-212: the package is not in PACKAGES
main_unknown_package ==
    /\ pc = "main"
    /\ Len(argv) >= 3
    /\ argv[3] \notin DOMAIN PACKAGES
    /\ trace' = trace \o << Output(<<W("Unknown package"), W(argv[3])>>),
                            Output(<<W("Available:"), W("fastfetch, nvim")>>) >>
    /\ pc' = "done"
    /\ UNCHANGED <<argv, host, fsys, locals>>

\* main, lines 214-218: detect the system and print it
main_detect ==
    /\ pc = "main"
    /\ Len(argv) >= 3
    /\ argv[3] \in DOMAIN PACKAGES
    /\ LET d == detect_system(platform_system, markers)
       IN  /\ system' = d[1]
           /\ distro' = d[2]
           /\ trace' = trace \o
                << Event("call", <<W("detect_system")>>, 0),
                   Event("return", <<W("detect_system")>>, 0),
                   Output(<<W("System:"), W(d[1]), W("Distro:"), W(d[2])>>) >>
    /\ pc' = "detected"
    /\ UNCHANGED <<argv, host, fsys, queue, assets, downloaded_files, inst>>

\* a slip: install queries the release before installing dependencies
Dispatch_query_first(command) ==
    IF command = "deps" THEN "install_dependencies"
    ELSE IF command = "install" THEN "query"
    ELSE "done"

\* where main goes after detection, by command
Dispatch(command) ==
    IF command = "deps" \/ command = "install" THEN "install_dependencies"
    ELSE "done"

\* main, lines 221-237: dispatch on the command
main_dispatch ==
    /\ pc = "detected"
    /\ pc' = Dispatch(argv[2])
    /\ trace' = IF pc' = "done"
                THEN Append(trace, Output(<<W("Unknown command"), W(argv[2])>>))
                ELSE trace
    /\ UNCHANGED <<argv, host, fsys, locals>>

\* install_dependencies up to its first subprocess, lines 97-119
install_dependencies ==
    /\ pc = "install_dependencies"
    /\ LET deps == DepsOf(PACKAGES[argv[3]], distro)
           cmds == DepsCommands(deps, distro)
           call == Event("call", <<W("install_dependencies")>>, 0)
           ret == Event("return", <<W("install_dependencies")>>, 0)
       IN  IF deps = <<>>
           THEN /\ trace' = trace \o
                     << call, Output(<<W("No dependencies needed.")>>), ret >>
                /\ queue' = <<>>
                /\ pc' = AfterDeps(argv[2])
           ELSE IF cmds = <<>>
           THEN /\ trace' = trace \o
                     << call, Output(<<W("Installing dependencies:")>> \o Words(deps)),
                        DepsAdvice(distro), ret >>
                /\ queue' = <<>>
                /\ pc' = AfterDeps(argv[2])
           ELSE /\ trace' = trace \o
                     << call, Output(<<W("Installing dependencies:")>> \o Words(deps)) >>
                /\ queue' = cmds
                /\ pc' = "deps_run"
    /\ UNCHANGED <<argv, host, fsys, system, distro, assets, downloaded_files, inst>>

\* one subprocess.run of install_dependencies, lines 106-113, and the return
\* after the last one
install_dependencies_run ==
    /\ pc = "deps_run"
    /\ queue # <<>>
    /\ \E code \in ExitCodes :
          LET ran == Event("run", Head(queue), code)
              ret == Event("return", <<W("install_dependencies")>>, 0)
              next == IF Len(queue) = 1 THEN AfterDeps(argv[2]) ELSE "deps_run"
          IN  /\ pc' = subprocess_run(code, next)
              /\ trace' = IF Len(queue) = 1 THEN trace \o <<ran, ret>>
                          ELSE Append(trace, ran)
    /\ queue' = Tail(queue)
    /\ UNCHANGED <<argv, host, fsys, system, distro, assets, downloaded_files, inst>>

\* download_latest up to its loop, lines 124-140: the release query
download_latest ==
    /\ pc = "query"
    /\ LET repo == PACKAGES[argv[3]].repo
           call == Event("call", <<W("download_latest")>>, 0)
           ret == Event("return", <<W("download_latest")>>, 0)
           get(status) == Event("GET", <<ApiUrl(repo)>>, status)
       IN  \/ \* requests.get raises: no response at all
              /\ trace' = trace \o <<call, get(0), Raise("ConnectionError")>>
              /\ pc' = "crashed"
              /\ UNCHANGED <<assets, dirExists>>
           \/ \E status \in StatusCodes, listed \in AssetLists :
                 IF ~ReleaseFetched(status)
                 THEN /\ trace' = trace \o
                           << call, get(status),
                              Output(<<W("Error: Could not fetch release for"), W(repo)>>),
                              ret >>
                      /\ pc' = "done"
                      /\ UNCHANGED <<assets, dirExists>>
                 ELSE IF listed = <<>>
                 THEN /\ trace' = trace \o
                           << call, get(status),
                              Output(<<W("No assets found in latest release.")>>),
                              ret >>
                      /\ pc' = "done"
                      /\ UNCHANGED <<assets, dirExists>>
                 ELSE /\ trace' = trace \o
                           << call, get(status), Event("makedirs", <<<<"downloads">>>>, 0) >>
                      /\ assets' = listed
                      /\ dirExists' = TRUE
                      /\ pc' = "download"
    /\ UNCHANGED <<argv, host, disk, system, distro, queue, downloaded_files, inst>>

\* one round of download_latest's loop, lines 142-157, and the return after
\* the last one, line 159
download_latest_asset ==
    /\ pc = "download"
    /\ LET i == Len(downloaded_files) + 1
           asset == assets[i]
           url == asset.browser_download_url
           filename == asset.name
           path == PathJoin(filename)
           start(status) ==
               << Output(<<W("Downloading"), filename>>), Event("GET", <<url>>, status) >>
           open == Event("open_wb", <<path>>, 0)
           ret == Event("return", <<W("download_latest")>>, 0)
       IN  \E outcome \in DownloadOutcomes :
             IF outcome = "ok"
             THEN /\ disk' = [disk EXCEPT ![filename] = "new"]
                  /\ downloaded_files' = Append(downloaded_files, path)
                  /\ pc' = AfterSaved(i, Len(assets))
                  /\ trace' = trace \o start(200)
                                \o << open, Output(<<W("Saved to"), path>>) >>
                                \o (IF pc' = "install" THEN <<ret>> ELSE <<>>)
             ELSE /\ disk' = IF outcome = "stream_error"
                             THEN [disk EXCEPT ![filename] = "partial"]
                             ELSE disk
                  /\ trace' = trace \o start(ResponseStatus(outcome))
                                \o (IF outcome = "stream_error" THEN <<open>> ELSE <<>>)
                                \o << Raise(IF outcome = "http_error" THEN "HTTPError"
                                            ELSE "ConnectionError") >>
                  /\ pc' = DownloadFailed
                  /\ UNCHANGED downloaded_files
    /\ UNCHANGED <<argv, host, dirExists, system, distro, queue, assets, inst>>

\* one round of main's loop over the downloaded files, lines 233-234
main_install_file ==
    /\ pc = "install"
    /\ inst < Len(downloaded_files)
    /\ LET path == downloaded_files[inst + 1]
       IN  \E code \in ExitCodes :
             trace' = trace \o
                 << Event("call", <<W("install_file"), path>>, 0),
                    Output(<<W("Installing"), Basename(path), W("...")>>) >>
                 \o install_file(path, system, distro, code)
                 \o << Event("return", <<W("install_file"), path>>, 0) >>
    /\ inst' = inst + 1
    /\ pc' = IF inst' = Len(downloaded_files) THEN "done" ELSE "install"
    /\ UNCHANGED <<argv, host, fsys, system, distro, queue, assets, downloaded_files>>

Next ==
    \/ main_usage
    \/ main_unknown_package
    \/ main_detect
    \/ main_dispatch
    \/ install_dependencies
    \/ install_dependencies_run
    \/ download_latest
    \/ download_latest_asset
    \/ main_install_file

Spec == Init /\ [][Next]_vars

-----------------------------------------------------------------------------
(* Reading the trace *)

Indices == 1..Len(trace)

IsRun(e) == e.kind = "run"
IsCall(e, f) == e.kind = "call" /\ e.arg[1] = W(f)
IsReturn(e, f) == e.kind = "return" /\ e.arg[1] = W(f)
IsReleaseQuery(e) == e.kind = "GET" /\ e.arg[1][1] = "https://api.github.com/repos/"
IsDownload(e) == e.kind = "GET" /\ e.arg[1][1] = "https://github.com/download/"
IsInstallCall(e) == IsCall(e, "install_file")
IsRaise(e) == e.kind = "raise"
IsFileWrite(e) == e.kind = "makedirs" \/ e.kind = "open_wb"
Said(e, text) == e.kind = "print" /\ e.arg[1] = W(text)

Called(f) == \E i \in Indices : IsCall(trace[i], f)
Returned(f) == \E i \in Indices : IsReturn(trace[i], f)
CallIndex(f) == CHOOSE i \in Indices : IsCall(trace[i], f)
ReturnIndex(f) == CHOOSE i \in Indices : IsReturn(trace[i], f)

\* the run was started as `install <known package>`
InstallRun == Len(argv) >= 3 /\ argv[2] = "install" /\ argv[3] \in DOMAIN PACKAGES

\* main is over, by return or by an exception
Terminal == pc \in {"done", "crashed"}

\* the events of the call of install_dependencies, up to now
DepsSegment ==
    IF ~Called("install_dependencies") THEN <<>>
    ELSE SubSeq(trace, CallIndex("install_dependencies"),
                IF Returned("install_dependencies")
                THEN ReturnIndex("install_dependencies") ELSE Len(trace))

\* the subprocesses install_dependencies has started, in order
DepsRuns == SelectSeq(DepsSegment, IsRun)

\* the asset requests and the install_file calls of the run, in order
Downloads == SelectSeq(trace, IsDownload)
InstallCalls == SelectSeq(trace, IsInstallCall)

\* the events of the call install_file(path, ...), which has returned
InstallSegment(path) ==
    LET c == CHOOSE i \in Indices : trace[i] = Event("call", <<W("install_file"), path>>, 0)
        r == CHOOSE i \in Indices : trace[i] = Event("return", <<W("install_file"), path>>, 0)
    IN  SubSeq(trace, c, r)

InstallReturned(path) ==
    \E i \in Indices : trace[i] = Event("return", <<W("install_file"), path>>, 0)

RpmPaths == { PathJoin(n) : n \in { m \in AssetNames : EndsWith(m, RPM) } }

IsPrefix(p, q) == Len(p) <= Len(q) /\ SubSeq(q, 1, Len(p)) = p

-----------------------------------------------------------------------------
(* Claims *)

\* C1: when the fetch step of an asset runs and a file of the asset's name
\* already exists in the download directory, no request is issued for the
\* asset, the file is left as it is and its path is returned.
C1_CacheHit ==
    [][ (pc = "download"
            /\ disk[assets[Len(downloaded_files) + 1].name] # "absent")
        => /\ disk' = disk
           /\ \A i \in (Len(trace) + 1)..Len(trace') : trace'[i].kind # "GET"
           /\ downloaded_files' =
                Append(downloaded_files,
                       PathJoin(assets[Len(downloaded_files) + 1].name)) ]_vars

\* C2 as stated: at most one asset is selected per resolution, and only that
\* asset is downloaded and installed.
C2_AtMostOneAsset ==
    /\ Len(Downloads) <= 1
    /\ Len(InstallCalls) <= 1

\* C2 as amended: no asset is filtered out. The assets are requested one by
\* one in the order of the release query, and when main returns after a release
\* with assets, every asset was requested once and handed to install_file once,
\* in that order; an empty asset list ends in "No assets found in latest
\* release." with nothing requested or installed.
C2_EveryAssetInOrder ==
    /\ IsPrefix([k \in 1..Len(Downloads) |-> Downloads[k].arg[1]],
                [k \in 1..Len(assets) |-> assets[k].browser_download_url])
    /\ IsPrefix([k \in 1..Len(InstallCalls) |-> InstallCalls[k].arg[2]],
                [k \in 1..Len(assets) |-> PathJoin(assets[k].name)])
    /\ (pc = "done" /\ assets # <<>>)
          => /\ Len(Downloads) = Len(assets)
             /\ Len(InstallCalls) = Len(assets)
    /\ (Returned("download_latest") /\ assets = <<>>
          /\ \E i \in Indices : IsReleaseQuery(trace[i]) /\ trace[i].code = 200)
          => /\ \E i \in Indices : Said(trace[i], "No assets found in latest release.")
             /\ Downloads = <<>>
             /\ InstallCalls = <<>>

C2_Witness ==
    /\ pc = "done"
    /\ Len(assets) = 2
    /\ Len(Downloads) = 2
    /\ Len(InstallCalls) = 2

\* C3: in an install of a known package, whatever the exit statuses of the
\* package-manager subprocesses of install_dependencies, the run goes on to
\* the release query: when main is over, install_dependencies has returned
\* and download_latest was called after it and issued its request.
C3_DepsAdvisory ==
    (InstallRun /\ Terminal)
        => \E i, j \in Indices :
              /\ i < j /\ j < Len(trace)
              /\ IsReturn(trace[i], "install_dependencies")
              /\ IsCall(trace[j], "download_latest")
              /\ IsReleaseQuery(trace[j + 1])

C3_Witness ==
    /\ InstallRun
    /\ Terminal
    /\ Len(DepsRuns) = 2
    /\ DepsRuns[1].code # 0
    /\ DepsRuns[2].code # 0
    /\ Called("download_latest")

\* C4: on debian, install_dependencies starts exactly two subprocesses:
\* sudo apt update, then sudo apt install -y <deps> with the deps in their
\* configured order; the second is started whatever the first returned, and
\* the call starts no other subprocess.
C4_DebianTwoSteps ==
    (distro = "debian" /\ Called("install_dependencies"))
        => LET deps == PACKAGES[argv[3]].deps.debian
               expected ==
                   << <<W("sudo"), W("apt"), W("update")>>,
                      <<W("sudo"), W("apt"), W("install"), W("-y")>>
                          \o [k \in 1..Len(deps) |-> W(deps[k])] >>
               started == [k \in 1..Len(DepsRuns) |-> DepsRuns[k].arg]
           IN  /\ deps # <<>>
               /\ IsPrefix(started, expected)
               /\ Returned("install_dependencies") <=> started = expected
               /\ ~Returned("install_dependencies") => pc = "deps_run"

C4_Witness ==
    /\ distro = "debian"
    /\ Returned("install_dependencies")
    /\ Len(DepsRuns) = 2
    /\ DepsRuns[1].code = 1

\* C5: detect_system always returns, and its distro is that of the
\* highest-priority marker present on Linux (debian over arch over fedora),
\* "unknown" on Linux without a marker, "windows" on Windows and "unknown" on
\* any other system, whatever markers exist there.
C5_DetectPriority ==
    /\ Called("detect_system") => Returned("detect_system")
    /\ Returned("detect_system")
        => /\ (platform_system = "Linux" /\ "/etc/debian_version" \in markers)
                => distro = "debian"
           /\ (platform_system = "Linux" /\ "/etc/debian_version" \notin markers
                 /\ "/etc/arch-release" \in markers)
                => distro = "arch"
           /\ (platform_system = "Linux"
                 /\ markers \cap {"/etc/debian_version", "/etc/arch-release"} = {}
                 /\ "/etc/fedora-release" \in markers)
                => distro = "fedora"
           /\ (platform_system = "Linux" /\ markers = {}) => distro = "unknown"
           /\ platform_system = "Windows" => distro = "windows"
           /\ platform_system \notin {"Linux", "Windows"} => distro = "unknown"

C5_Witness ==
    /\ Returned("detect_system")
    /\ platform_system = "Linux"
    /\ markers = {"/etc/arch-release", "/etc/fedora-release"}
    /\ distro = "arch"

\* C6: a run issues at most one release query, an install of a known
\* package exactly one by the time main is over, and when its status is not
\* 200 (or there is no response, or the release has no assets) no asset is
\* requested, nothing is created or written in the download directory and
\* install_file is not called.
C6_QueryFailureAborts ==
    LET queries == SelectSeq(trace, IsReleaseQuery)
    IN  /\ Len(queries) <= 1
        /\ (InstallRun /\ Terminal) => Len(queries) = 1
        /\ (Len(queries) = 1 /\ (queries[1].code # 200 \/ assets = <<>>))
              => /\ Downloads = <<>>
                 /\ InstallCalls = <<>>
                 /\ \A i \in Indices : ~IsFileWrite(trace[i])
                 /\ \A n \in AssetNames : disk[n] \in {"absent", "old"}
                 /\ pc \in {"done", "crashed"}

C6_Witness ==
    /\ pc = "done"
    /\ \E i \in Indices : IsReleaseQuery(trace[i]) /\ trace[i].code = 204
    /\ \E i \in Indices : Said(trace[i], "Error: Could not fetch release for")

\* C7: after a failure of the release query or of an asset download (error
\* status or transport error) the run prints a diagnostic line for it and
\* main returns normally: the run never ends in an unhandled exception.
C7_GracefulFailure ==
    /\ pc # "crashed"
    /\ \A i \in Indices :
          (trace[i].kind = "GET" /\ trace[i].code # 200)
              => \E j \in Indices : j > i /\ trace[j].kind = "print"

\* C8 as stated: on every system, install_file on a path ending in .rpm
\* runs sudo rpm -i <path> exactly once and does not report an unknown file
\* type.
C8_RpmOnEverySystem ==
    \A path \in RpmPaths :
        InstallReturned(path)
            => LET segment == InstallSegment(path)
               IN  /\ SelectSeq(segment, IsRun)
                        = << Event("run", <<W("sudo"), W("rpm"), W("-i"), path>>, 0) >>
                       \/ SelectSeq(segment, IsRun)
                        = << Event("run", <<W("sudo"), W("rpm"), W("-i"), path>>, 1) >>
                   /\ \A k \in 1..Len(segment) : ~Said(segment[k], "Unknown file type:")

\* C8 as amended: on a Linux system, whatever the distro, install_file on a
\* path ending in .rpm runs sudo rpm -i <path> exactly once, runs nothing
\* else and does not report an unknown file type; on any other system it
\* starts no subprocess and reports the file as an unknown file type.
C8_RpmOnLinux ==
    \A path \in RpmPaths :
        InstallReturned(path)
            => LET segment == InstallSegment(path)
                   runs == SelectSeq(segment, IsRun)
                   unknown == \E k \in 1..Len(segment) :
                                 Said(segment[k], "Unknown file type:")
               IN  IF system = "linux"
                   THEN /\ Len(runs) = 1
                        /\ runs[1].arg = <<W("sudo"), W("rpm"), W("-i"), path>>
                        /\ ~unknown
                   ELSE /\ runs = <<>>
                        /\ unknown

C8_Witness ==
    /\ system = "linux"
    /\ distro \in {"debian", "unknown"}
    /\ \E path \in RpmPaths :
          /\ InstallReturned(path)
          /\ Len(SelectSeq(InstallSegment(path), IsRun)) = 1

\* C9: the steps of an install come in the order detection, dependency
\* installation, release query, asset downloads, install_file: every
\* dependency subprocess starts after detect_system has returned, every
\* request is issued after install_dependencies has returned, the release
\* query precedes every asset request, and every install_file call comes
\* after download_latest has returned and after every asset request.
C9_PhaseOrder ==
    \A i \in Indices :
        /\ (IsCall(trace[i], "install_dependencies") \/ IsRun(trace[i]))
              => \E h \in 1..(i - 1) : IsReturn(trace[h], "detect_system")
        /\ trace[i].kind = "GET"
              => \E h \in 1..(i - 1) : IsReturn(trace[h], "install_dependencies")
        /\ IsDownload(trace[i])
              => \E h \in 1..(i - 1) : IsReleaseQuery(trace[h])
        /\ IsInstallCall(trace[i])
              => /\ \E h \in 1..(i - 1) : IsReturn(trace[h], "download_latest")
                 /\ \A h \in Indices : trace[h].kind = "GET" => h < i

C9_Witness ==
    /\ pc = "done"
    /\ Len(DepsRuns) = 2
    /\ Len(Downloads) = 2
    /\ Len(InstallCalls) = 2
    /\ \E h, i \in Indices : h < i /\ IsInstallCall(trace[h]) /\ IsRun(trace[i])

\* C10: install_file is called only when every asset of the release has
\* been downloaded, and then once per asset in release order; when the
\* download of asset number k fails, install_file is not called at all, the
\* files of the k-1 earlier assets are in the download directory, and the
\* file of asset k is what it was before or a partial one.
C10_DownloadBeforeInstall ==
    LET k == Len(downloaded_files) + 1
    IN  /\ InstallCalls # <<>>
            => /\ Len(downloaded_files) = Len(assets)
               /\ \A j \in 1..Len(assets) : disk[assets[j].name] = "new"
               /\ Len(SelectSeq(Downloads, LAMBDA e : e.code = 200)) = Len(assets)
        /\ (pc = "done" /\ assets # <<>>)
            => [j \in 1..Len(InstallCalls) |-> InstallCalls[j].arg[2]]
                 = [j \in 1..Len(assets) |-> PathJoin(assets[j].name)]
        /\ (\E i \in Indices : IsRaise(trace[i]) /\ \E h \in 1..i : IsDownload(trace[h]))
            => /\ InstallCalls = <<>>
               /\ pc = "crashed"
               /\ \A j \in 1..(k - 1) : disk[assets[j].name] = "new"
               /\ disk[assets[k].name] \in {"absent", "old", "partial"}

C10_Witness ==
    /\ pc = "crashed"
    /\ Len(assets) = 2
    /\ Len(downloaded_files) = 1
    /\ disk[assets[1].name] = "new"
    /\ disk[assets[2].name] = "partial"

====
